---- MODULE Spec2Model ----
(***************************************************************************)
(* Ordered (Bayer threshold) dithering of ditherpunker: the shared         *)
(* BayerConfig, the tiled threshold cache built by prepare, the three      *)
(* row-parallel kernels (scalar_par, fixed_par, fit_par) run by apply, and *)
(* the strategy selection (auto, lanes_fit, closest_pow_2).                *)
(*                                                                         *)
(* Numbers.  f32 values are kept as exact fixed-point integers with        *)
(* denominator Unit (1.0 is Unit).  A product of two such values has       *)
(* denominator Unit*Unit, so the comparison  v < bayer*scale + offset  is  *)
(* evaluated exactly as  v*Unit < bayer*scale + offset*Unit.  All three    *)
(* kernels perform the same multiply-then-add per lane, so rounding is the *)
(* same in each and is not modelled.                                       *)
(* Sequences are 1-based: element i of a Rust slice is [i + 1].            *)
(***************************************************************************)
EXTENDS Integers, Sequences, FiniteSets, TLC

VARIABLES
    config,     \* the BayerConfig the transform owns
    transform,  \* the built transform: its kind and precomputed SIMD data
    tiled,      \* the transform's tiled threshold cache (`bayer` field)
    shape,      \* <<width, height>> of the input and output textures
    in_buf,     \* the input texture's buffer
    out_buf,    \* the output texture's buffer
    pc,         \* "idle", "applying", "unwinding", "returned" or "panicked"
    pending,    \* rows whose task has not started
    running,    \* rows whose task is running on a worker
    workers,    \* worker threads of the pool that runs this apply
    probe,      \* history: <<input, output, returns>> of the first apply since prepare
    call,       \* a call of a function or constructor: its arguments and result
    pipeline,   \* a Pipeline: its two stages t1, t2 and its intermediate texture b
    input,      \* the texture the caller of the pipeline reads from
    output,     \* the texture the caller of the pipeline writes to
    grid,       \* a GridIterator or ParGridIterator
    yielded,    \* history: the tuples the iterator has yielded
    jobs,       \* ranges of the parallel iterator no worker has taken
    folders,    \* per worker, the sub-range it is in and its map_init state
    output_shape,   \* <<width, height>> of the output view given to apply
    debug_assertions    \* cfg!(debug_assertions) of the build

\* the threshold transform
dither_vars == <<config, transform, tiled, shape, in_buf, out_buf, pc, pending, running,
                 workers, probe>>

\* the pipeline and its caller's textures
pipe_vars == <<pipeline, input, output>>

\* the grid iterators
grid_vars == <<grid, yielded, jobs, folders>>

\* the caller's output view and the build profile
caller_vars == <<output_shape, debug_assertions>>

vars == <<dither_vars, call, pipe_vars, grid_vars, caller_vars>>

\* fixed-point denominator
Unit == 4 * 5

\* ---- bounds of the model ----
MaxOrder == 1
MaxWidth == 4
MaxHeight == 4
MaxWorkers == 2

\* ---- machine arithmetic on usize ----
RECURSIVE Pow2(_)
Pow2(k) == IF k = 0 THEN 1 ELSE 2 * Pow2(k - 1)

\* a & b
RECURSIVE BitAnd(_, _)
BitAnd(a, b) ==
    IF a = 0 \/ b = 0 THEN 0
    ELSE (a % 2) * (b % 2) + 2 * BitAnd(a \div 2, b \div 2)

\* a << k (no value of the model comes near the width of usize)
Shl(a, k) == a * Pow2(k)

\* a >> k
Shr(a, k) == a \div Pow2(k)

\* ---- BayerConfig ----
BayerConfig_new_ok_side_only(order, matrix) ==
    LET side_size == Shl(1, order)
    IN  side_size = Len(matrix)

\* BayerConfig::new; the assertion on the matrix length is its guard
BayerConfig_new_ok(order, matrix) ==
    LET side_size == Shl(1, order)
    IN  side_size * side_size = Len(matrix)

BayerConfig_new(order, matrix, map) ==
    LET side_size == Shl(1, order)
        side_mask == side_size - 1
    IN  [order |-> order, matrix |-> matrix, map |-> map, side_mask |-> side_mask]

bayer_idx_badmask(cfg, x, y) ==
    Shl(BitAnd(y, cfg.side_mask + 1), cfg.order) + BitAnd(x, cfg.side_mask + 1)

bayer_idx(cfg, x, y) ==
    Shl(BitAnd(y, cfg.side_mask), cfg.order) + BitAnd(x, cfg.side_mask)

\* precompute_tiled_rows, with the closure of cache_tiled_pattern as map:
\* the two nested loops, the running idx being the length written so far.
RECURSIVE precompute_tiled_rows(_, _, _, _, _, _)
precompute_tiled_rows(cfg, tile_size, row_size, y, x, cache) ==
    IF y >= tile_size THEN cache
    ELSE IF x >= row_size
         THEN precompute_tiled_rows(cfg, tile_size, row_size, y + 1, 0, cache)
         ELSE precompute_tiled_rows(cfg, tile_size, row_size, y, x + 1,
                  Append(cache, Unit - cfg.matrix[bayer_idx(cfg, x, y) + 1]))

cache_tiled_pattern_swapped(cfg, width) ==
    precompute_tiled_rows(cfg, width, Shl(1, cfg.order), 0, 0, <<>>)

cache_tiled_pattern(cfg, width) ==
    precompute_tiled_rows(cfg, Shl(1, cfg.order), width, 0, 0, <<>>)

\* ---- the comparison of every kernel:  v < bayer * scale + offset ----
Lt_le(v, bayer, scale, offset) == v * Unit <= bayer * scale + offset * Unit

Lt(v, bayer, scale, offset) == v * Unit < bayer * scale + offset * Unit

\* pixel.simd_lt(bayer * scale + offset).to_bitmask(): bit `lane` is set when
\* lane `lane` of the comparison is true
RECURSIVE simd_lt_bitmask(_, _, _, _, _)
simd_lt_bitmask(v, bayer, scale, offset, lane) ==
    IF lane >= Len(scale) THEN 0
    ELSE (IF Lt(v, bayer, scale[lane + 1], offset[lane + 1]) THEN Pow2(lane) ELSE 0)
         + simd_lt_bitmask(v, bayer, scale, offset, lane + 1)

\* result & (1 << lane) != 0
bit_set(result, lane) == BitAnd(result, Shl(1, lane)) # 0

\* `n` zeros
Zeros(n) == [i \in 1..n |-> 0]

\* ---- construction of the three transforms ----
Scalar_new(cfg) ==
    [kind |-> "Scalar", lanes |-> 0, scale |-> <<>>, offset |-> <<>>,
     simd |-> <<>>, compute_iters |-> 0]

SimdFixed_new_ok(cfg, LANES) == Len(cfg.map) = LANES

SimdFixed_new(cfg, LANES) ==
    [kind |-> "SimdFixed", lanes |-> LANES,
     scale |-> [i \in 1..LANES |-> IF i <= Len(cfg.map) THEN cfg.map[i].scale ELSE 0],
     offset |-> [i \in 1..LANES |-> IF i <= Len(cfg.map) THEN cfg.map[i].offset ELSE 0],
     simd |-> <<>>, compute_iters |-> 0]

\* usize::div_ceil
div_ceil(a, b) == (a + b - 1) \div b

SimdFitPassData_pads_with_last(cfg, LANES, compute_iters, iter) ==
    LET len == Len(cfg.map)
        range_size == IF iter = compute_iters - 1
                      THEN (IF len % LANES = 0 THEN LANES ELSE len % LANES)
                      ELSE LANES
        remainder == LANES - range_size
        range_start == iter * LANES
        range_end == range_start + range_size
        part == SubSeq(cfg.map, range_start + 1, range_end)
    IN  [size |-> range_size,
         scale |-> [i \in 1..range_size |-> part[i].scale]
                     \o [i \in 1..remainder |-> part[range_size].scale],
         offset |-> [i \in 1..range_size |-> part[i].offset]
                     \o [i \in 1..remainder |-> part[range_size].offset]]

\* one SimdFitPassData of SimdFit::new, for pass `iter` (0-based)
SimdFitPassData(cfg, LANES, compute_iters, iter) ==
    LET len == Len(cfg.map)
        range_size == IF iter = compute_iters - 1
                      THEN (IF len % LANES = 0 THEN LANES ELSE len % LANES)
                      ELSE LANES
        remainder == LANES - range_size
        range_start == iter * LANES
        range_end == range_start + range_size
        part == SubSeq(cfg.map, range_start + 1, range_end)
    IN  [size |-> range_size,
         scale |-> [i \in 1..range_size |-> part[i].scale] \o Zeros(remainder),
         offset |-> [i \in 1..range_size |-> part[i].offset] \o Zeros(remainder)]

SimdFit_new(cfg, LANES) ==
    LET compute_iters == div_ceil(Len(cfg.map), LANES)
    IN  [kind |-> "Simd", lanes |-> LANES, scale |-> <<>>, offset |-> <<>>,
         simd |-> [k \in 1..compute_iters |-> SimdFitPassData(cfg, LANES, compute_iters, k - 1)],
         compute_iters |-> compute_iters]

\* lane counts BayerStrategy::build has an arm for
BuildLanes == {2, 4, 8, 16}

build_ok_unchecked_fixed(strategy, cfg) ==
    \/ strategy.kind = "Scalar"
    \/ strategy.kind = "Simd" /\ strategy.lanes \in BuildLanes
    \/ strategy.kind = "SimdFixed" /\ strategy.lanes \in BuildLanes

\* BayerStrategy::build: the arms that return; every other strategy panics
build_ok(strategy, cfg) ==
    \/ strategy.kind = "Scalar"
    \/ strategy.kind = "Simd" /\ strategy.lanes \in BuildLanes
    \/ strategy.kind = "SimdFixed" /\ strategy.lanes \in BuildLanes
                                   /\ SimdFixed_new_ok(cfg, strategy.lanes)

build(strategy, cfg) ==
    CASE strategy.kind = "Scalar" -> Scalar_new(cfg)
      [] strategy.kind = "Simd" -> SimdFit_new(cfg, strategy.lanes)
      [] strategy.kind = "SimdFixed" -> SimdFixed_new(cfg, strategy.lanes)

\* ---- strategy selection ----
\* bits of usize
UsizeBits == 64

\* number of significant bits of n
RECURSIVE bit_length(_)
bit_length(n) == IF n = 0 THEN 0 ELSE 1 + bit_length(n \div 2)

\* n.leading_zeros() for an unsigned integer of `bits` bits
leading_zeros(n, bits) == bits - bit_length(n)

\* the largest value of an unsigned integer of `bits` bits
MaxValue(bits) == Pow2(bits) - 1

\* closest_pow_2 leaves the range of its type in one of the operations it
\* performs: `1 << highest_bit_pos`, `lower << 1`, `n - lower`, `upper - n`
closest_pow_2_overflows(n, bits) ==
    /\ n # 0
    /\ LET lz == leading_zeros(n, bits)
           highest_bit_pos == bits - 1 - lz
           lower == Shl(1, highest_bit_pos)
           upper == Shl(lower, 1)
       IN  \/ highest_bit_pos < 0
           \/ lower > MaxValue(bits)
           \/ lz # 0 /\ (upper > MaxValue(bits) \/ n - lower < 0 \/ upper - n < 0)

closest_pow_2_prefer_upper(n, bits) ==
    IF n = 0 THEN 1
    ELSE LET lz == leading_zeros(n, bits)
             highest_bit_pos == bits - 1 - lz
             lower == Shl(1, highest_bit_pos)
             upper == Shl(lower, 1)
         IN  IF lz = 0 THEN lower
             ELSE IF (n - lower) < (upper - n) THEN lower ELSE upper

\* utils::num::closest_pow_2 on an unsigned integer of `bits` bits
closest_pow_2(n, bits) ==
    IF n = 0 THEN 1
    ELSE LET lz == leading_zeros(n, bits)
             highest_bit_pos == bits - 1 - lz
             lower == Shl(1, highest_bit_pos)
             upper == Shl(lower, 1)
         IN  IF lz = 0 THEN lower
             ELSE IF (n - lower) <= (upper - n) THEN lower ELSE upper

\* `while lanes > lane_hint { lanes >>= 1 }`
RECURSIVE halve_while_above(_, _)
halve_while_above(lanes, lane_hint) ==
    IF lanes > lane_hint THEN halve_while_above(Shr(lanes, 1), lane_hint) ELSE lanes

lanes_fit_no_halving(lane_hint) == closest_pow_2(lane_hint, UsizeBits)

\* BayerStrategy::lanes_fit
lanes_fit(lane_hint) ==
    halve_while_above(closest_pow_2(lane_hint, UsizeBits), lane_hint)

\* the vector width auto works with: the compile-time suggestion (0 when there
\* is none), replaced by the widest feature detected at run time
detect_lane_hint(suggested, avx512f, avx2, sse2) ==
    IF avx512f THEN 16
    ELSE IF avx2 THEN 8
    ELSE IF sse2 THEN 4
    ELSE suggested

StrategyScalar == [kind |-> "Scalar", lanes |-> 0]

auto_lanes_ge16(size_hint, lane_hint) ==
    IF size_hint < 2 THEN StrategyScalar
    ELSE IF size_hint = lane_hint THEN [kind |-> "SimdFixed", lanes |-> lane_hint]
    ELSE LET lanes == lanes_fit(size_hint)
         IN  IF lanes < 2 \/ lanes >= 16 THEN StrategyScalar
             ELSE [kind |-> "Simd", lanes |-> lanes]

auto_no_upper_limit(size_hint, lane_hint) ==
    IF size_hint < 2 THEN StrategyScalar
    ELSE IF size_hint = lane_hint THEN [kind |-> "SimdFixed", lanes |-> lane_hint]
    ELSE LET lanes == lanes_fit(size_hint)
         IN  IF lanes < 2 THEN StrategyScalar
             ELSE [kind |-> "Simd", lanes |-> lanes]

\* BayerStrategy::auto for a map of size_hint entries
auto(size_hint, lane_hint) ==
    IF size_hint < 2 THEN StrategyScalar
    ELSE IF size_hint = lane_hint THEN [kind |-> "SimdFixed", lanes |-> lane_hint]
    ELSE LET lanes == lanes_fit(size_hint)
         IN  IF lanes < 2 \/ lanes > 16 THEN StrategyScalar
             ELSE [kind |-> "Simd", lanes |-> lanes]

\* ---- the per-pixel classification of the three kernels ----
\* scalar_par: `for map in &config.map { if in < bayer*scale + offset { ..; break } }`
RECURSIVE scalar_scan(_, _, _, _, _)
scalar_scan(map, i, v, bayer, color) ==
    IF i >= Len(map) THEN color
    ELSE IF Lt(v, bayer, map[i + 1].scale, map[i + 1].offset) THEN map[i + 1].color
    ELSE scalar_scan(map, i + 1, v, bayer, color)

scalar_pixel(cfg, fallback_color, v, bayer) ==
    scalar_scan(cfg.map, 0, v, bayer, fallback_color)

\* fixed_par: `for (lane, map) in config.map.iter().enumerate()` over the bitmask
RECURSIVE fixed_scan(_, _, _, _)
fixed_scan(map, lane, result, color) ==
    IF lane >= Len(map) THEN color
    ELSE IF bit_set(result, lane) THEN map[lane + 1].color
    ELSE fixed_scan(map, lane + 1, result, color)

fixed_pixel(cfg, tr, fallback_color, v, bayer) ==
    LET result == simd_lt_bitmask(v, bayer, tr.scale, tr.offset, 0)
    IN  fixed_scan(cfg.map, 0, result, fallback_color)

\* fit_par: `for lane in 0..pool.size`, <<>> when no lane of the pass matches
RECURSIVE fit_lane_scan(_, _, _, _, _)
fit_lane_scan(map, color_offset, size, result, lane) ==
    IF lane >= size THEN <<>>
    ELSE IF bit_set(result, lane) THEN <<map[color_offset + lane + 1].color>>
    ELSE fit_lane_scan(map, color_offset, size, result, lane + 1)

fit_color_offset_unscaled(iter, LANES) == iter

\* `let color_offset = iter * LANES`
fit_color_offset(iter, LANES) == iter * LANES

RECURSIVE fit_scan_keeps_scanning(_, _, _, _, _, _)
fit_scan_keeps_scanning(cfg, tr, iter, v, bayer, color) ==
    IF iter >= tr.compute_iters THEN color
    ELSE LET pool == tr.simd[iter + 1]
             result == simd_lt_bitmask(v, bayer, pool.scale, pool.offset, 0)
             hit == fit_lane_scan(cfg.map, fit_color_offset(iter, tr.lanes),
                                  pool.size, result, 0)
         IN  fit_scan_keeps_scanning(cfg, tr, iter + 1, v, bayer,
                                     IF hit # <<>> THEN hit[1] ELSE color)

\* fit_par: `'compute: for iter in 0..compute_iters`
RECURSIVE fit_scan(_, _, _, _, _, _)
fit_scan(cfg, tr, iter, v, bayer, color) ==
    IF iter >= tr.compute_iters THEN color
    ELSE LET pool == tr.simd[iter + 1]
             result == simd_lt_bitmask(v, bayer, pool.scale, pool.offset, 0)
             hit == fit_lane_scan(cfg.map, fit_color_offset(iter, tr.lanes),
                                  pool.size, result, 0)
         IN  IF hit # <<>> THEN hit[1]
             ELSE fit_scan(cfg, tr, iter + 1, v, bayer, color)

fit_pixel(cfg, tr, fallback_color, v, bayer) ==
    fit_scan(cfg, tr, 0, v, bayer, fallback_color)

\* the kernel the transform's apply calls
kernel_pixel(cfg, tr, fallback_color, v, bayer) ==
    CASE tr.kind = "Scalar" -> scalar_pixel(cfg, fallback_color, v, bayer)
      [] tr.kind = "SimdFixed" -> fixed_pixel(cfg, tr, fallback_color, v, bayer)
      [] tr.kind = "Simd" -> fit_pixel(cfg, tr, fallback_color, v, bayer)

\* ---- one row task of par_chunks_mut(width).enumerate().for_each ----
\* `bayer_row_idx = y & side_mask; bayer_start = bayer_row_idx << order`
bayer_start(cfg, y) == Shl(BitAnd(y, cfg.side_mask), cfg.order)

\* `&tiled_bayer[bayer_start..bayer_start + width]` panics when the range
\* does not lie inside the cache
bayer_row_ok(cfg, tiled_bayer, y, width) ==
    bayer_start(cfg, y) + width <= Len(tiled_bayer)

\* the length of chunk y of par_chunks_mut(width): the last one may be shorter
chunk_len(out, y, width) ==
    IF (y + 1) * width <= Len(out) THEN width ELSE Len(out) - y * width

\* `in_buf[pixel_idx]` panics when pixel_idx is outside the input; an input
\* texture holds whole rows, so the first pixel of the chunk decides
in_row_ok(in, out, y, width) == y * width + chunk_len(out, y, width) <= Len(in)

\* the colours the task of row y writes to its chunk
row_task(cfg, tr, in, width, tiled_bayer, y) ==
    LET start == bayer_start(cfg, y)
        fallback_color == cfg.map[Len(cfg.map)].color
        idx_offset == y * width
    IN  [x \in 1..width |->
            kernel_pixel(cfg, tr, fallback_color,
                         in[idx_offset + x], tiled_bayer[start + x])]

\* a task that also writes the element after its chunk
write_chunk_spill(cfg, out, width, y, row) ==
    [i \in 1..Len(out) |->
        IF (i - 1) \div width = y THEN row[((i - 1) % width) + 1]
        ELSE IF i - 1 = (y + 1) * width THEN row[width]
        ELSE out[i]]

\* a task that leaves the element alone when no entry matched
write_chunk_skip_fallback(cfg, out, width, y, row) ==
    [i \in 1..Len(out) |->
        IF (i - 1) \div width = y /\ row[((i - 1) % width) + 1] # cfg.map[Len(cfg.map)].color
        THEN row[((i - 1) % width) + 1]
        ELSE out[i]]

\* `*col = color` for every col of chunk y of par_chunks_mut(width): the
\* buffer after the task of row y wrote `row` to its chunk
write_chunk(cfg, out, width, y, row) ==
    [i \in 1..Len(out) |->
        IF (i - 1) \div width = y THEN row[((i - 1) % width) + 1] ELSE out[i]]

\* ---- inputs ----
\* a threshold matrix of the given order; order 1 is [0.0, 0.5, 0.75, 0.25]
MatrixOf(order) ==
    LET len == Pow2(order) * Pow2(order)
    IN  IF order = 1 THEN <<0, Unit \div 2, (3 * Unit) \div 4, Unit \div 4>>
        ELSE [i \in 1..len |-> ((((i - 1) * 7) % len) * Unit) \div len]

Entry(color, scale, offset) == [color |-> color, scale |-> scale, offset |-> offset]

\* colour maps of 0 to 4 entries; colours are numbered from 1 in map order
Palettes ==
    { <<>>,
      <<Entry(1, Unit, 0)>>,
      <<Entry(1, Unit, 0), Entry(2, Unit, 0)>>,
      <<Entry(1, Unit \div 2, 0), Entry(2, Unit, 0 - Unit \div 4), Entry(3, Unit, 0)>>,
      <<Entry(1, Unit \div 2, 0), Entry(2, Unit \div 4, 0), Entry(3, Unit, 0),
        Entry(4, Unit \div 2, Unit \div 2)>> }

Strategies ==
    {StrategyScalar}
    \cup {[kind |-> k, lanes |-> l] : k \in {"Simd", "SimdFixed"}, l \in BuildLanes}

\* T::default(), which Texture::new fills a new output buffer with
DefaultColor == 0

RampValues == <<0 - Unit \div 4, 0, (2 * Unit) \div 5, (3 * Unit) \div 5, Unit, (3 * Unit) \div 2>>

Uniform(v, len) == [i \in 1..len |-> v]

Ramp(step, len) == [i \in 1..len |-> RampValues[((i * step) % Len(RampValues)) + 1]]

Images(len) == {Uniform((2 * Unit) \div 5, len), Ramp(1, len), Ramp(5, len)}

Width == shape[1]
Height == shape[2]

\* ---- the transform's operations ----
\* no pipeline was built
NoPipeline == pipeline = <<>> /\ input = <<>> /\ output = <<>>

\* no iterator was built
NoGrid == grid = <<>> /\ yielded = <<>> /\ jobs = {} /\ folders = <<>>

\* the output view has the input's shape, in a build with debug assertions
SameShape == output_shape = shape /\ debug_assertions = TRUE

Init ==
    /\ config \in {BayerConfig_new(o, MatrixOf(o), m) : o \in 0..MaxOrder, m \in Palettes}
    /\ transform \in {build(s, config) : s \in {t \in Strategies : build_ok(t, config)}}
    /\ tiled = <<>>
    /\ shape \in (1..MaxWidth) \X (1..MaxHeight)
    /\ in_buf \in Images(shape[1] * shape[2])
    /\ out_buf = Uniform(DefaultColor, shape[1] * shape[2])
    /\ pc = "idle"
    /\ pending = {}
    /\ running = {}
    /\ workers = 0
    /\ probe = <<>>
    /\ SameShape
    /\ call = <<>>
    /\ NoPipeline
    /\ NoGrid

Callable == pc \in {"idle", "returned"}

\* TextureTransform::prepare(in_shape, out_shape) with in_shape == out_shape
Prepare(width) ==
    /\ Callable
    /\ tiled' = cache_tiled_pattern(config, width)
    /\ pc' = "idle"
    /\ probe' = <<>>
    /\ UNCHANGED <<config, transform, shape, in_buf, out_buf, pending, running, workers, call>>
    /\ UNCHANGED <<pipe_vars, grid_vars, caller_vars>>

\* the caller fills the input texture with another image of the same shape
LoadImage(img) ==
    /\ Callable
    /\ img # in_buf
    /\ in_buf' = img
    /\ pc' = "idle"
    /\ UNCHANGED <<config, transform, tiled, shape, out_buf, pending, running, workers, probe, call>>
    /\ UNCHANGED <<pipe_vars, grid_vars, caller_vars>>

\* TextureTransform::apply enters the kernel: `config.map.last().unwrap()`
\* panics on an empty map, otherwise one task per chunk of `width` elements
ApplyStart(w) ==
    /\ Callable
    /\ IF Len(config.map) = 0
       THEN /\ pc' = "panicked"
            /\ UNCHANGED <<pending, running, workers>>
       ELSE /\ pc' = "applying"
            /\ pending' = 0..(div_ceil(Len(out_buf), Width) - 1)
            /\ running' = {}
            /\ workers' = w
    /\ UNCHANGED <<config, transform, tiled, shape, in_buf, out_buf, probe, call>>
    /\ UNCHANGED <<pipe_vars, grid_vars, caller_vars>>

RowStart_keeps_pending(y) ==
    /\ pc \in {"applying", "unwinding"}
    /\ y \in pending
    /\ Cardinality(running) < workers
    /\ pending' = pending
    /\ running' = running \cup {y}
    /\ UNCHANGED <<config, transform, tiled, shape, in_buf, out_buf, pc, workers, probe, call>>
    /\ UNCHANGED <<pipe_vars, grid_vars, caller_vars>>

\* a free worker takes the task of row y
RowStart(y) ==
    /\ pc \in {"applying", "unwinding"}
    /\ y \in pending
    /\ Cardinality(running) < workers
    /\ pending' = pending \ {y}
    /\ running' = running \cup {y}
    /\ UNCHANGED <<config, transform, tiled, shape, in_buf, out_buf, pc, workers, probe, call>>
    /\ UNCHANGED <<pipe_vars, grid_vars, caller_vars>>

\* the task of row y runs: it panics on the slice of the cache or on the
\* first pixel it reads from the input, or writes its chunk
RowFinish(y) ==
    /\ y \in running
    /\ running' = running \ {y}
    /\ IF bayer_row_ok(config, tiled, y, Width) /\ in_row_ok(in_buf, out_buf, y, Width)
       THEN /\ out_buf' = write_chunk(config, out_buf, Width, y,
                                      row_task(config, transform, in_buf, Width, tiled, y))
            /\ pc' = pc
       ELSE /\ out_buf' = out_buf
            /\ pc' = "unwinding"
    /\ UNCHANGED <<config, transform, tiled, shape, in_buf, pending, workers, probe, call>>
    /\ UNCHANGED <<pipe_vars, grid_vars, caller_vars>>

\* every task ran: apply returns the views
Return ==
    /\ pc = "applying"
    /\ pending = {}
    /\ running = {}
    /\ pc' = "returned"
    /\ UNCHANGED <<config, transform, tiled, shape, in_buf, out_buf, pending, running, workers, call>>
    /\ UNCHANGED <<pipe_vars, grid_vars, caller_vars>>

ApplyReturn == Return /\ UNCHANGED probe

\* the same step, with the history of the first apply since prepare kept:
\* its input, the output it left, and a stage: 1 at first, 2 once an apply of
\* another input returned, 3 once the first input was applied again after that
ApplyReturnRecorded ==
    /\ Return
    /\ probe' = IF probe = <<>> THEN <<in_buf, out_buf, 1>>
                ELSE IF probe[1] # in_buf THEN <<probe[1], probe[2], 2>>
                ELSE IF probe[3] = 2 THEN <<probe[1], probe[2], 3>>
                ELSE probe

\* a task panicked: once the running tasks are over the panic leaves apply;
\* tasks that had not started may never run
ApplyUnwind ==
    /\ pc = "unwinding"
    /\ running = {}
    /\ pc' = "panicked"
    /\ pending' = {}
    /\ UNCHANGED <<config, transform, tiled, shape, in_buf, out_buf, running, workers, probe, call>>
    /\ UNCHANGED <<pipe_vars, grid_vars, caller_vars>>

\* a pool of MaxWorkers threads: a worker may stay idle, so the schedules of
\* every smaller pool are among the behaviours
Next ==
    \/ Prepare(Width)
    \/ ApplyStart(MaxWorkers)
    \/ \E y \in 0..(MaxHeight - 1) : RowStart(y)
    \/ \E y \in 0..(MaxHeight - 1) : RowFinish(y)
    \/ ApplyReturn
    \/ ApplyUnwind

Spec == Init /\ [][Next]_vars

\* repeated applies on changing inputs, one worker, images two rows high
InitRepeat == Init /\ shape[2] = 2

NextRepeat ==
    \/ Prepare(Width)
    \/ \E img \in Images(Width * Height) : LoadImage(img)
    \/ ApplyStart(1)
    \/ \E y \in 0..(MaxHeight - 1) : RowStart(y)
    \/ \E y \in 0..(MaxHeight - 1) : RowFinish(y)
    \/ ApplyReturnRecorded
    \/ ApplyUnwind

SpecRepeat == InitRepeat /\ [][NextRepeat]_vars

\* ---- prepare and apply on views of any shape, in debug and release builds ----
MaxViewSide == 2

\* shapes of the input view
ViewShapes == (1..MaxViewSide) \X (1..MaxViewSide)

\* shapes of the output view for an input of shape s: the same width and any
\* height, or one row that is one element wider
OutputShapes(s) == {<<s[1], h>> : h \in 1..MaxViewSide} \cup {<<s[1] + 1, 1>>}

\* a palette of three colours on the largest matrix, as Scalar and as SimdFit<2>
InitViews ==
    /\ config \in {BayerConfig_new(MaxOrder, MatrixOf(MaxOrder), m) : m \in {p \in Palettes : Len(p) = 3}}
    /\ transform \in {build(s, config) : s \in {t \in Strategies : t.lanes <= 2 /\ build_ok(t, config)}}
    /\ tiled = <<>>
    /\ shape \in ViewShapes
    /\ output_shape \in OutputShapes(shape)
    /\ debug_assertions \in BOOLEAN
    /\ in_buf = Ramp(1, shape[1] * shape[2])
    /\ out_buf = Uniform(DefaultColor, output_shape[1] * output_shape[2])
    /\ pc = "idle"
    /\ pending = {}
    /\ running = {}
    /\ workers = 0
    /\ probe = <<>>
    /\ call = <<>>
    /\ NoPipeline
    /\ NoGrid

PrepareViews_keeps_cache(in_shape, out_shape) ==
    /\ Callable
    /\ IF debug_assertions /\ in_shape # out_shape
       THEN /\ pc' = "panicked"
            /\ UNCHANGED <<tiled, call>>
       ELSE /\ pc' = "idle"
            /\ tiled' = IF tiled = <<>> THEN cache_tiled_pattern(config, in_shape[1]) ELSE tiled
            /\ call' = [fn |-> "prepare", args |-> <<in_shape, out_shape>>, ret |-> <<>>]
    /\ UNCHANGED <<config, transform, shape, in_buf, out_buf, pending, running, workers, probe>>
    /\ UNCHANGED <<pipe_vars, grid_vars, caller_vars>>

\* TextureTransform::prepare(in_shape, out_shape) of Scalar, SimdFixed and
\* SimdFit: the debug_assert_eq on the shapes, then the cache for in_shape.0;
\* `call` keeps the last prepare that returned
PrepareViews(in_shape, out_shape) ==
    /\ Callable
    /\ IF debug_assertions /\ in_shape # out_shape
       THEN /\ pc' = "panicked"
            /\ UNCHANGED <<tiled, call>>
       ELSE /\ pc' = "idle"
            /\ tiled' = cache_tiled_pattern(config, in_shape[1])
            /\ call' = [fn |-> "prepare", args |-> <<in_shape, out_shape>>, ret |-> <<>>]
    /\ UNCHANGED <<config, transform, shape, in_buf, out_buf, pending, running, workers, probe>>
    /\ UNCHANGED <<pipe_vars, grid_vars, caller_vars>>

\* prepare for any input shape, with the output shape equal to it or that of
\* the output view; apply on the two views
NextViews ==
    \/ \E in_shape \in ViewShapes : \E out_shape \in {in_shape, output_shape} :
          PrepareViews(in_shape, out_shape)
    \/ ApplyStart(MaxWorkers)
    \/ \E y \in 0..MaxViewSide : RowStart(y)
    \/ \E y \in 0..MaxViewSide : RowFinish(y)
    \/ ApplyReturn
    \/ ApplyUnwind

SpecViews == InitViews /\ [][NextViews]_vars

\* ---- error diffusion: normalize_color_map ----
\* a / b on f32; the maps of the model make every quotient exact
f32_div(a, b) == (a * Unit) \div b

\* `.map(|x| x.scale).reduce(|acc, e| acc + e).unwrap_or(0.0)` over map[from..]
RECURSIVE sum_scales(_, _)
sum_scales(map, from) ==
    IF from >= Len(map) THEN 0 ELSE map[from + 1].scale + sum_scales(map, from + 1)

\* the `while index < color_map.len()` loop
RECURSIVE normalize_loop(_, _, _, _)
normalize_loop(map, index, sum, rolling_sum) ==
    IF index >= Len(map) THEN map
    ELSE LET scale == f32_div(map[index + 1].scale, sum) + rolling_sum
         IN  normalize_loop([map EXCEPT ![index + 1].scale = scale], index + 1, sum, scale)

\* `color_map[1..]` and `color_map[0]` panic on an empty map
normalize_color_map_ok(map) == Len(map) >= 1

normalize_color_map(map) ==
    [normalize_loop(map, 1, sum_scales(map, 1), 0) EXCEPT ![1].scale = 0]

\* ---- textures ----
\* Texture<T>: its fields
Texture(width, height, planes, buffer) ==
    [width |-> width, height |-> height, planes |-> planes, buffer |-> buffer]

\* Texture::new
Texture_new(width, height, planes) ==
    Texture(width, height, planes, Uniform(DefaultColor, width * height * planes))

\* TextureRef::shape
Shape(texture) == <<texture.width, texture.height, texture.planes>>

\* Texture::new_uninitialized: a buffer of width*height*planes elements whose
\* contents are whatever the allocation held (`fill`), and `planes: 1`
Texture_new_uninitialized(width, height, planes, fill) ==
    Texture(width, height, 1, Uniform(fill, width * height * planes))

\* Texture::from_slice; the assert_eq on the length of the slice is its guard
Texture_from_slice_ok(width, height, planes, slice) ==
    Len(slice) = width * height * planes

Texture_from_slice(width, height, planes, slice) ==
    Texture(width, height, planes, slice)

\* Texture::from_image_buffer for an image of layout (width, height, channels)
\* whose samples are `raw`; copy_from_slice panics on lengths that differ
Texture_from_image_buffer_ok(width, height, channels, raw, fill) ==
    Len(Texture_new_uninitialized(width, height, channels, fill).buffer) = Len(raw)

Texture_from_image_buffer(width, height, channels, raw, fill) ==
    [Texture_new_uninitialized(width, height, channels, fill) EXCEPT !.buffer = raw]

\* buffer.iter().skip(plane).step_by(planes)
RECURSIVE skip_step_by(_, _, _)
skip_step_by(buffer, plane, planes) ==
    IF plane >= Len(buffer) THEN <<>>
    ELSE <<buffer[plane + 1]>> \o skip_step_by(buffer, plane + planes, planes)

\* TextureRef::split_by_planes: one texture per plane, written through
\* zip(texture.as_mut().iter_mut())
split_by_planes(self, fill) ==
    [k \in 1..self.planes |->
        LET texture == Texture_new_uninitialized(self.width, self.height, 1, fill)
            src == skip_step_by(self.buffer, k - 1, self.planes)
        IN  [texture EXCEPT !.buffer =
                [i \in 1..Len(texture.buffer) |->
                    IF i <= Len(src) THEN src[i] ELSE texture.buffer[i]]]]

\* TextureRef::merge_planes: its two assertions and the bounds check of
\* every `dst[dst_idx] = value`
merge_planes_ok(planes) ==
    /\ Len(planes) # 0
    /\ \A k \in 1..Len(planes) :
          /\ planes[k].width = planes[1].width
          /\ planes[k].height = planes[1].height
          /\ planes[k].planes = 1
    /\ \A k \in 1..Len(planes) : \A pixel_idx \in 0..(Len(planes[k].buffer) - 1) :
          pixel_idx * Len(planes) + (k - 1)
            < planes[1].width * planes[1].height * Len(planes)

merge_planes(planes, fill) ==
    LET merged == Texture_new_uninitialized(planes[1].width, planes[1].height,
                                            Len(planes), fill)
        num == Len(planes)
    IN  [merged EXCEPT !.buffer =
            [dst_idx \in 1..Len(merged.buffer) |->
                LET plane_idx == (dst_idx - 1) % num
                    pixel_idx == (dst_idx - 1) \div num
                IN  IF pixel_idx < Len(planes[plane_idx + 1].buffer)
                    THEN planes[plane_idx + 1].buffer[pixel_idx + 1]
                    ELSE merged.buffer[dst_idx]]]

\* ---- calls of the pure functions ----
MaxCoord == 17
MaxIdxOrder == 3
MaxPaletteLen == 40

Call(fn, args) == [fn |-> fn, args |-> args, ret |-> <<>>]

\* widths of the unsigned types closest_pow_2 is called with: u8 and u16
IntegralBits == {8, 16}

\* the values it is called with: every value of u8; of u16 the powers of
\* two, the midpoints between two of them, their neighbours and the extremes
ValuesOf(bits) ==
    IF bits <= 8 THEN 0..MaxValue(bits)
    ELSE {v \in {Pow2(k) + d : k \in 0..bits, d \in {0 - 1, 0, 1}}
                \cup {3 * Pow2(k) + d : k \in 0..(bits - 2), d \in {0 - 1, 0, 1}} :
            v >= 0 /\ v <= MaxValue(bits)}

MaxMatrixLen == 65
MaxLanes == 17

\* a matrix of `len` values
MatrixOfLen(len) == [i \in 1..len |-> ((i - 1) * 7) % (Unit + 1)]

\* a colour map of n entries
PaletteOfLen(n) == [i \in 1..n |-> Entry(i, Unit, 0)]

\* a colour map of n entries, no two with the same scale or offset, none zero
DistinctPalette(n) == [i \in 1..n |-> Entry(i, i, 0 - i)]

MaxFitLen == 9

\* a colour map of n entries: (k = 0) every entry 1.0 and -0.5; (k = 4)
\* offsets rising by 0.25 from -0.5; else thresholds in no order, scales of
\* 0, 0.25, .. 1.0 and offsets of -0.25, 0 and 0.25
ScrambledPalette(n, k) ==
    [i \in 1..n |->
        CASE k = 0 -> Entry(i, Unit, 0 - Unit \div 2)
          [] k = 4 -> Entry(i, Unit \div 4, (i - 3) * (Unit \div 4))
          [] OTHER -> Entry(i, (((i * k) % 5) * Unit) \div 4, ((i % 3) - 1) * (Unit \div 4))]

\* pixel values, some negative, and thresholds of the cache
PixelValues == {RampValues[i] : i \in 1..Len(RampValues)}
Thresholds == {0, Unit \div 4, Unit \div 2, Unit}

\* the scales of the maps normalize_color_map is called with; the first is
\* the map of test_normalize_color_map
ScaleVectors ==
    {<<Unit, Unit>>, <<>>, <<Unit>>, <<Unit, Unit, Unit>>,
     <<Unit, Unit \div 2, Unit \div 2>>,
     <<Unit \div 2, Unit \div 4, Unit \div 4, Unit \div 2>>,
     <<Unit, Unit, Unit, Unit, Unit>>,
     <<Unit \div 4, Unit, Unit \div 2, Unit \div 2, Unit, Unit>>}

\* the variants of ThresholdType
BayerTypes == {"Bayer0", "Bayer1", "Bayer2", "Bayer3"}
ThresholdTypes == BayerTypes \cup {"Rand", "BlueNoise"}

\* the side of the matrices BAYER0 .. BAYER3
matrices_side(threshold_type) ==
    CASE threshold_type = "Bayer0" -> 2
      [] threshold_type = "Bayer1" -> 4
      [] threshold_type = "Bayer2" -> 8
      [] threshold_type = "Bayer3" -> 16

\* the order to_transform_config passes to ThresholdConfig::new
to_transform_config_order(threshold_type) ==
    CASE threshold_type = "Bayer0" -> 1
      [] threshold_type = "Bayer1" -> 2
      [] threshold_type = "Bayer2" -> 3
      [] threshold_type = "Bayer3" -> 3

\* Rand and BlueNoise are unimplemented!(); the others construct a config,
\* which asserts the length of the matrix
to_transform_config_ok(threshold_type) ==
    /\ threshold_type \in BayerTypes
    /\ BayerConfig_new_ok(to_transform_config_order(threshold_type),
                          MatrixOfLen(matrices_side(threshold_type) * matrices_side(threshold_type)))

to_transform_config(threshold_type, color_map) ==
    BayerConfig_new(to_transform_config_order(threshold_type),
                    MatrixOfLen(matrices_side(threshold_type) * matrices_side(threshold_type)),
                    color_map)

AllStrategies ==
    {StrategyScalar}
    \cup {[kind |-> k, lanes |-> l] : k \in {"Simd", "SimdFixed"}, l \in 0..MaxLanes}

MaxTexSide == 2
MaxPlanes == 3
MaxSamples == 13

\* (width, height, planes) a texture is constructed with
CtorShapes == (0..MaxTexSide) \X (0..MaxTexSide) \X (0..MaxPlanes)

\* `len` samples, all different
Samples(len) == [i \in 1..len |-> i]

\* textures with interleaved planes, as from_slice returns them
Interleaved ==
    {Texture_from_slice(s[1], s[2], s[3], Samples(s[1] * s[2] * s[3])) : s \in CtorShapes}

\* vectors of textures merge_planes is called with: the planes of a texture,
\* the empty vector, planes of different sizes, a texture of two planes
PlaneVecs ==
    {split_by_planes(t, 0) : t \in Interleaved}
    \cup {<<Texture_new(1, 1, 1), Texture_new(2, 1, 1)>>,
          <<Texture_new(1, 1, 1), Texture_new(1, 1, 2)>>}

Calls ==
    {Call("bayer_idx", <<o, x, y>>) : o \in 0..MaxIdxOrder, x \in 0..MaxCoord, y \in 0..MaxCoord}
    \cup {Call("lanes_fit", <<n>>) : n \in 0..MaxPaletteLen}
    \cup {Call("auto", <<n, detect_lane_hint(sg, f[1], f[2], f[3])>>) :
            n \in 0..MaxPaletteLen, sg \in {0, 4}, f \in BOOLEAN \X BOOLEAN \X BOOLEAN}
    \cup UNION {{Call("closest_pow_2", <<n, bits>>) : n \in ValuesOf(bits)} :
                   bits \in IntegralBits}
    \cup {Call("BayerConfig::new", <<o, MatrixOfLen(len), PaletteOfLen(n)>>) :
            o \in 0..MaxIdxOrder, len \in 0..MaxMatrixLen, n \in {0, 2}}
    \cup {Call("build", <<s, PaletteOfLen(n)>>) : s \in AllStrategies, n \in 0..MaxLanes}
    \cup {Call("auto.build", <<PaletteOfLen(n), detect_lane_hint(sg, f[1], f[2], f[3])>>) :
            n \in 0..MaxPaletteLen, sg \in {0, 4}, f \in BOOLEAN \X BOOLEAN \X BOOLEAN}
    \cup {Call("to_transform_config", <<t, m>>) : t \in ThresholdTypes, m \in Palettes}
    \cup {Call("SimdFit::new", <<DistinctPalette(n), l>>) : n \in 0..MaxLanes, l \in BuildLanes}
    \cup {Call("fit_par", <<ScrambledPalette(n, k), l, v, t>>) :
            n \in 1..MaxFitLen, k \in 0..4, l \in BuildLanes, v \in PixelValues, t \in Thresholds}
    \cup {Call("normalize_color_map", <<[i \in 1..Len(sc) |-> Entry(i, sc[i], 0)]>>) :
            sc \in ScaleVectors}
    \cup {Call("Texture::new", s) : s \in CtorShapes}
    \cup {Call("Texture::new_uninitialized", s) : s \in CtorShapes}
    \cup {Call("Texture::from_slice", <<s[1], s[2], s[3], Samples(len)>>) :
            s \in CtorShapes, len \in 0..MaxSamples}
    \cup {Call("Texture::from_image_buffer", <<s[1], s[2], s[3], Samples(s[1] * s[2] * s[3] + d)>>) :
            s \in CtorShapes, d \in {0, 1}}
    \cup {Call("split_by_planes", <<t>>) : t \in Interleaved}
    \cup {Call("merge_planes", <<v>>) : v \in PlaneVecs}

InitCalls ==
    /\ config = BayerConfig_new(0, MatrixOf(0), <<>>)
    /\ transform = Scalar_new(config)
    /\ tiled = <<>>
    /\ shape = <<1, 1>>
    /\ in_buf = <<0>>
    /\ out_buf = <<DefaultColor>>
    /\ pc = "idle"
    /\ pending = {}
    /\ running = {}
    /\ workers = 0
    /\ probe = <<>>
    /\ SameShape
    /\ call \in Calls
    /\ NoPipeline
    /\ NoGrid

Returns(fn, value) ==
    /\ call.fn = fn
    /\ call.ret = <<>>
    /\ call' = [call EXCEPT !.ret = <<value>>]
    /\ UNCHANGED <<dither_vars, pipe_vars, grid_vars, caller_vars>>

CallBayerIdx ==
    /\ call.fn = "bayer_idx"
    /\ Returns("bayer_idx",
               bayer_idx(BayerConfig_new(call.args[1], MatrixOf(call.args[1]), <<>>),
                         call.args[2], call.args[3]))

CallLanesFit ==
    /\ call.fn = "lanes_fit"
    /\ Returns("lanes_fit", lanes_fit(call.args[1]))

CallAuto ==
    /\ call.fn = "auto"
    /\ Returns("auto", auto(call.args[1], call.args[2]))

\* the result of a call that may panic
Ok(value) == [ok |-> TRUE, value |-> value]
Panic == [ok |-> FALSE, value |-> <<>>]

CallClosestPow2 ==
    /\ call.fn = "closest_pow_2"
    /\ Returns("closest_pow_2",
               IF closest_pow_2_overflows(call.args[1], call.args[2]) THEN Panic
               ELSE Ok(closest_pow_2(call.args[1], call.args[2])))

CallBayerConfigNew ==
    /\ call.fn = "BayerConfig::new"
    /\ Returns("BayerConfig::new",
               IF BayerConfig_new_ok(call.args[1], call.args[2])
               THEN Ok(BayerConfig_new(call.args[1], call.args[2], call.args[3]))
               ELSE Panic)

CallBuild ==
    /\ call.fn = "build"
    /\ LET cfg == BayerConfig_new(0, MatrixOf(0), call.args[2])
       IN  Returns("build",
                   IF build_ok(call.args[1], cfg) THEN Ok(build(call.args[1], cfg))
                   ELSE Panic)

\* `ThresholdImpl::auto(&config).build(config)` on a machine whose vector
\* width is args[2]
CallAutoBuild ==
    /\ call.fn = "auto.build"
    /\ LET cfg == BayerConfig_new(0, MatrixOf(0), call.args[1])
           strategy == auto(Len(cfg.map), call.args[2])
       IN  Returns("auto.build",
                   IF build_ok(strategy, cfg) THEN Ok(build(strategy, cfg)) ELSE Panic)

CallToTransformConfig ==
    /\ call.fn = "to_transform_config"
    /\ Returns("to_transform_config",
               IF to_transform_config_ok(call.args[1])
               THEN Ok(to_transform_config(call.args[1], call.args[2]))
               ELSE Panic)

CallSimdFitNew ==
    /\ call.fn = "SimdFit::new"
    /\ Returns("SimdFit::new",
               Ok(SimdFit_new(BayerConfig_new(0, MatrixOf(0), call.args[1]), call.args[2])))

\* fit_par on an image of one pixel whose threshold in the cache is args[4]:
\* the colour the task of row 0 writes
CallFitPar ==
    /\ call.fn = "fit_par"
    /\ LET cfg == BayerConfig_new(0, MatrixOf(0), call.args[1])
       IN  Returns("fit_par",
                   Ok(row_task(cfg, SimdFit_new(cfg, call.args[2]), <<call.args[3]>>, 1,
                               <<call.args[4]>>, 0)[1]))

CallNormalizeColorMap ==
    /\ call.fn = "normalize_color_map"
    /\ Returns("normalize_color_map",
               IF normalize_color_map_ok(call.args[1])
               THEN Ok(normalize_color_map(call.args[1]))
               ELSE Panic)

\* what an uninitialized allocation may hold
Garbage == {0, 1}

CallTextureNew ==
    /\ call.fn = "Texture::new"
    /\ Returns("Texture::new", Ok(Texture_new(call.args[1], call.args[2], call.args[3])))

CallTextureNewUninitialized ==
    /\ call.fn = "Texture::new_uninitialized"
    /\ \E fill \in Garbage :
          Returns("Texture::new_uninitialized",
                  Ok(Texture_new_uninitialized(call.args[1], call.args[2], call.args[3], fill)))

CallTextureFromSlice ==
    /\ call.fn = "Texture::from_slice"
    /\ Returns("Texture::from_slice",
               IF Texture_from_slice_ok(call.args[1], call.args[2], call.args[3], call.args[4])
               THEN Ok(Texture_from_slice(call.args[1], call.args[2], call.args[3], call.args[4]))
               ELSE Panic)

CallTextureFromImageBuffer ==
    /\ call.fn = "Texture::from_image_buffer"
    /\ \E fill \in Garbage :
          Returns("Texture::from_image_buffer",
                  IF Texture_from_image_buffer_ok(call.args[1], call.args[2], call.args[3],
                                                  call.args[4], fill)
                  THEN Ok(Texture_from_image_buffer(call.args[1], call.args[2], call.args[3],
                                                    call.args[4], fill))
                  ELSE Panic)

CallSplitByPlanes ==
    /\ call.fn = "split_by_planes"
    /\ \E fill \in Garbage :
          Returns("split_by_planes", Ok(split_by_planes(call.args[1], fill)))

CallMergePlanes ==
    /\ call.fn = "merge_planes"
    /\ \E fill \in Garbage :
          Returns("merge_planes",
                  IF merge_planes_ok(call.args[1]) THEN Ok(merge_planes(call.args[1], fill))
                  ELSE Panic)

NextCalls ==
    \/ CallTextureNew
    \/ CallTextureNewUninitialized
    \/ CallTextureFromSlice
    \/ CallTextureFromImageBuffer
    \/ CallSplitByPlanes
    \/ CallMergePlanes
    \/ CallBayerIdx
    \/ CallLanesFit
    \/ CallAuto
    \/ CallClosestPow2
    \/ CallBayerConfigNew
    \/ CallBuild
    \/ CallAutoBuild
    \/ CallToTransformConfig
    \/ CallSimdFitNew
    \/ CallFitPar
    \/ CallNormalizeColorMap

SpecCalls == InitCalls /\ [][NextCalls]_vars

\* ---- the paths that apply a threshold transform to an image ----
\* ThresholdType::to_transform on a machine whose vector width is lane_hint
to_transform(threshold_type, color_map, lane_hint) ==
    LET cfg == to_transform_config(threshold_type, color_map)
    IN  build(auto(Len(cfg.map), lane_hint), cfg)

\* a transform made by to_transform, not prepared yet, and an image; `call`
\* is the path taken: ThresholdType::dither, where the output is the image
\* itself, or TextureTransform::once on an input and a new output
InitPaths ==
    /\ \E t \in {b \in BayerTypes : to_transform_config_ok(b)} :
       \E m \in Palettes : \E fn \in {"dither", "once"} :
          /\ config = to_transform_config(t, m)
          /\ transform = to_transform(t, m, 4)
          /\ call = Call(fn, <<t>>)
    /\ tiled = <<>>
    /\ shape \in ViewShapes
    /\ in_buf \in Images(shape[1] * shape[2])
    /\ out_buf = IF call.fn = "dither" THEN in_buf
                 ELSE Uniform(DefaultColor, shape[1] * shape[2])
    /\ pc = "idle"
    /\ pending = {}
    /\ running = {}
    /\ workers = 0
    /\ probe = <<>>
    /\ SameShape
    /\ NoPipeline
    /\ NoGrid

\* dither: `transform.apply(input, output)` on the transform as built
DitherApply ==
    /\ call.fn = "dither"
    /\ pc = "idle"
    /\ ApplyStart(MaxWorkers)

\* once: `self.prepare(input.shape(), output.shape())`
OncePrepare ==
    /\ call.fn = "once"
    /\ pc = "idle"
    /\ tiled = <<>>
    /\ Prepare(Width)

\* once: `self.apply(input, output)`
OnceApply ==
    /\ call.fn = "once"
    /\ pc = "idle"
    /\ tiled # <<>>
    /\ ApplyStart(MaxWorkers)

NextPaths ==
    \/ DitherApply
    \/ OncePrepare
    \/ OnceApply
    \/ \E y \in 0..MaxViewSide : RowStart(y)
    \/ \E y \in 0..MaxViewSide : RowFinish(y)
    \/ ApplyReturn
    \/ ApplyUnwind

SpecPaths == InitPaths /\ [][NextPaths]_vars

\* ---- Pipeline of two IncTransform stages ----
\* IncTransform::default()
IncTransform_default == [in_shape |-> <<>>, out_shape |-> <<>>]

\* IncTransform::prepare
IncTransform_prepare(t, in_shape, out_shape) ==
    [in_shape |-> <<in_shape>>, out_shape |-> <<out_shape>>]

\* IncTransform::apply: output.iter_mut().zip(input.iter()), `*dst = *src + 1`;
\* the buffer of the output view afterwards
IncTransform_apply(in, out) ==
    [i \in 1..Len(out) |-> IF i <= Len(in) THEN in[i] + 1 ELSE out[i]]

\* Pipeline::new
Pipeline_new(t1, t2, width, height, planes) ==
    [t1 |-> t1, t2 |-> t2, b |-> Texture_new(width, height, planes)]

Pipeline_prepare_skips_b(p, in_shape, out_shape) ==
    [p EXCEPT !.t1 = IncTransform_prepare(p.t1, in_shape, out_shape),
              !.t2 = IncTransform_prepare(p.t2, in_shape, out_shape)]

\* Pipeline::prepare
Pipeline_prepare(p, in_shape, out_shape) ==
    LET b_shape == Shape(p.b)
    IN  [p EXCEPT !.t1 = IncTransform_prepare(p.t1, in_shape, b_shape),
                  !.t2 = IncTransform_prepare(p.t2, b_shape, out_shape)]

Pipeline_apply_t2_from_input(p, in, out) ==
    LET b == IncTransform_apply(in.buffer, p.b.buffer)
    IN  [pipeline |-> [p EXCEPT !.b.buffer = b],
         output |-> [out EXCEPT !.buffer = IncTransform_apply(in.buffer, out.buffer)],
         views |-> <<"input", "output">>]

\* Pipeline::apply: the pipeline and the output afterwards, and the views it
\* returns: the first t1.apply returned and the second t2.apply returned,
\* each stage returning the two views it was given
Pipeline_apply(p, in, out) ==
    LET b == IncTransform_apply(in.buffer, p.b.buffer)
        t1_views == <<"input", "b">>
        t2_views == <<"b", "output">>
    IN  [pipeline |-> [p EXCEPT !.b.buffer = b],
         output |-> [out EXCEPT !.buffer = IncTransform_apply(b, out.buffer)],
         views |-> <<t1_views[1], t2_views[2]>>]

MaxPipeSide == 4

\* shapes of the textures: squares of one plane (the 4x4x1 of the tests among
\* them) and a texture of two planes
TextureShapes == {<<w, w, 1>> : w \in {1, 2, MaxPipeSide}} \cup {<<2, 1, 2>>}

\* shapes prepare is called with
PrepareShapes == TextureShapes \cup {<<2 * MaxPipeSide, 2 * MaxPipeSide, 1>>}

\* contents of the caller's input: all 0, and a pattern of 0, 1, 2
PipeInputs(len) == {Uniform(0, len), [i \in 1..len |-> i % 3]}

InitPipe ==
    /\ config = BayerConfig_new(0, MatrixOf(0), <<>>)
    /\ transform = Scalar_new(config)
    /\ tiled = <<>>
    /\ shape = <<1, 1>>
    /\ in_buf = <<0>>
    /\ out_buf = <<DefaultColor>>
    /\ pc = "idle"
    /\ pending = {}
    /\ running = {}
    /\ workers = 0
    /\ probe = <<>>
    /\ SameShape
    /\ call = <<>>
    /\ NoGrid
    /\ pipeline \in {Pipeline_new(IncTransform_default, IncTransform_default, s[1], s[2], s[3]) :
                        s \in TextureShapes}
    /\ input \in UNION {{Texture(s[1], s[2], s[3], img) : img \in PipeInputs(s[1] * s[2] * s[3])} :
                           s \in TextureShapes}
    /\ output \in {Texture_new(s[1], s[2], s[3]) : s \in TextureShapes}

\* pipeline.prepare(in_shape, out_shape)
PipelinePrepare(in_shape, out_shape) ==
    /\ pipeline' = Pipeline_prepare(pipeline, in_shape, out_shape)
    /\ call' = [fn |-> "prepare", args |-> <<in_shape, out_shape>>, ret |-> <<>>]
    /\ UNCHANGED <<input, output, dither_vars, grid_vars, caller_vars>>

\* pipeline.apply(input.as_texture_slice(), output.as_texture_mut_slice())
PipelineApply ==
    LET r == Pipeline_apply(pipeline, input, output)
    IN  /\ pipeline' = r.pipeline
        /\ output' = r.output
        /\ call' = [fn |-> "apply", args |-> <<"input", "output">>, ret |-> r.views]
        /\ UNCHANGED <<input, dither_vars, grid_vars, caller_vars>>

\* the caller writes another image to its input texture
PipelineLoadInput(img) ==
    /\ img # input.buffer
    /\ input' = [input EXCEPT !.buffer = img]
    /\ call' = [fn |-> "copy_from_slice", args |-> <<"input">>, ret |-> <<>>]
    /\ UNCHANGED <<pipeline, output, dither_vars, grid_vars, caller_vars>>

NextPipe ==
    \/ \E in_shape \in PrepareShapes : \E out_shape \in PrepareShapes :
          PipelinePrepare(in_shape, out_shape)
    \/ PipelineApply
    \/ \E img \in PipeInputs(Len(input.buffer)) : PipelineLoadInput(img)

SpecPipe == InitPipe /\ [][NextPipe]_vars

\* ---- GridIterator ----
\* Option::Some / Option::None
Some(value) == <<value>>
None == <<>>

\* a - b on usize with a < b: a panic when overflow checks are compiled in,
\* else the wrapped difference 2^64 + (a - b), written a - b
usize_sub(a, b, overflow_checks) ==
    IF a >= b \/ ~overflow_checks THEN Ok(a - b) ELSE Panic

\* GridIterator::new
GridIterator_new(width, height) ==
    [width |-> width, height |-> height, x |-> 0, y |-> 0, pixel_idx |-> 0]

\* GridIterator::next: the iterator afterwards and the item returned
GridIterator_next(self) ==
    IF self.y >= self.height THEN [self |-> self, item |-> None]
    ELSE LET result == <<self.x, self.y, self.pixel_idx>>
             x == self.x + 1
         IN  [self |-> [self EXCEPT !.pixel_idx = self.pixel_idx + 1,
                                    !.x = IF x >= self.width THEN 0 ELSE x,
                                    !.y = IF x >= self.width THEN self.y + 1 ELSE self.y],
              item |-> Some(result)]

\* ExactSizeIterator::len
GridIterator_len(self, overflow_checks) ==
    usize_sub(self.width * self.height, self.pixel_idx, overflow_checks)

InitGrid ==
    /\ config = BayerConfig_new(0, MatrixOf(0), <<>>)
    /\ transform = Scalar_new(config)
    /\ tiled = <<>>
    /\ shape = <<1, 1>>
    /\ in_buf = <<0>>
    /\ out_buf = <<DefaultColor>>
    /\ pc = "idle"
    /\ pending = {}
    /\ running = {}
    /\ workers = 0
    /\ probe = <<>>
    /\ SameShape
    /\ call = <<>>
    /\ NoPipeline
    /\ grid \in {GridIterator_new(w, h) : w \in 0..MaxWidth, h \in 0..MaxHeight}
    /\ yielded = <<>>
    /\ jobs = {}
    /\ folders = <<>>

\* iterator.next()
GridNext ==
    LET r == GridIterator_next(grid)
    IN  /\ grid' = r.self
        /\ yielded' = yielded \o r.item
        /\ call' = [fn |-> "next", args |-> <<>>, ret |-> <<r.item>>]
        /\ UNCHANGED <<jobs, folders, dither_vars, pipe_vars, caller_vars>>

\* iterator.len()
GridLen ==
    /\ \E overflow_checks \in BOOLEAN :
          call' = [fn |-> "len", args |-> <<>>, ret |-> <<GridIterator_len(grid, overflow_checks)>>]
    /\ UNCHANGED <<grid, yielded, jobs, folders, dither_vars, pipe_vars, caller_vars>>

NextGrid == GridNext \/ GridLen

SpecGrid == InitGrid /\ [][NextGrid]_vars

\* ---- ParGridIterator ----
MaxParWidth == 3
MaxParHeight == 2

\* ParGridIterator::new
ParGridIterator_new(width, height) == [width |-> width, height |-> height]

map_op_never_wraps(state, idx, width, overflow_checks) ==
    IF state = None
    THEN IF width = 0 THEN [ok |-> FALSE, state |-> state, item |-> <<>>]
         ELSE [ok |-> TRUE, state |-> Some(<<idx % width, idx \div width, idx>>),
               item |-> <<idx % width, idx \div width, idx>>]
    ELSE [ok |-> TRUE, state |-> Some(<<state[1][1] + 1, state[1][2], idx>>),
          item |-> <<state[1][1] + 1, state[1][2], idx>>]

\* the closure par_iter gives to map_init, called with the state of the
\* folder and the next index: whether it returns, the state afterwards and
\* the item it returns
map_op(state, idx, width, overflow_checks) ==
    IF state = None
    THEN IF width = 0 THEN [ok |-> FALSE, state |-> state, item |-> <<>>]
         ELSE LET y == idx \div width
                  x == idx % width
              IN  [ok |-> TRUE, state |-> Some(<<x, y, idx>>), item |-> <<x, y, idx>>]
    ELSE LET x == state[1][1]
             y == state[1][2]
             last_idx == state[1][3]
             delta == usize_sub(idx, last_idx, overflow_checks)
         IN  IF ~delta.ok THEN [ok |-> FALSE, state |-> state, item |-> <<>>]
             ELSE LET new_x == x + 1
                      x2 == IF delta.value = 1
                            THEN (IF new_x >= width THEN 0 ELSE new_x)
                            ELSE idx % width
                      y2 == IF delta.value = 1
                            THEN (IF new_x >= width THEN y + 1 ELSE y)
                            ELSE idx \div width
                  IN  [ok |-> TRUE, state |-> Some(<<x2, y2, idx>>), item |-> <<x2, y2, idx>>]

\* a worker with no sub-range
Idle == <<>>

InitParGrid ==
    /\ config = BayerConfig_new(0, MatrixOf(0), <<>>)
    /\ transform = Scalar_new(config)
    /\ tiled = <<>>
    /\ shape = <<1, 1>>
    /\ in_buf = <<0>>
    /\ out_buf = <<DefaultColor>>
    /\ pc = "idle"
    /\ pending = {}
    /\ running = {}
    /\ workers = 0
    /\ probe = <<>>
    /\ SameShape
    /\ NoPipeline
    /\ grid \in {ParGridIterator_new(w, h) : w \in 0..MaxParWidth, h \in 0..MaxParHeight}
    /\ call = [fn |-> "par_iter", args |-> <<>>, ret |-> <<>>]
    /\ yielded = {}
    /\ jobs = IF grid.width * grid.height = 0 THEN {} ELSE {<<0, grid.width * grid.height>>}
    /\ folders = [w \in 1..MaxWorkers |-> Idle]

\* the range `job` is split at mid: an idle worker takes the sub-range below
\* mid, with the `|| None` of map_init as its state, and the sub-range from mid
\* on stays to be split again.  Every partition of the index range in
\* contiguous sub-ranges arises this way, with the workers that hold
\* sub-ranges at the same time stepping in any order.
ParTake(w, job, mid) ==
    /\ call.ret = <<>>
    /\ job \in jobs
    /\ folders[w] = Idle
    /\ job[1] < mid /\ mid <= job[2]
    /\ jobs' = (jobs \ {job}) \cup {r \in {<<mid, job[2]>>} : r[1] < r[2]}
    /\ folders' = [folders EXCEPT ![w] = [lo |-> job[1], hi |-> mid, state |-> None]]
    /\ UNCHANGED <<grid, yielded, call, dither_vars, pipe_vars, caller_vars>>

\* a worker calls the closure on the next index of its sub-range
ParStep(w) ==
    /\ call.ret = <<>>
    /\ folders[w] # Idle
    /\ \E overflow_checks \in BOOLEAN :
          LET f == folders[w]
              r == map_op(f.state, f.lo, grid.width, overflow_checks)
              seen == Cardinality({t \in yielded : t.idx = f.lo})
          IN  IF r.ok
              THEN /\ yielded' = yielded \cup {[x |-> r.item[1], y |-> r.item[2],
                                                 idx |-> r.item[3], n |-> seen + 1]}
                   /\ folders' = [folders EXCEPT ![w] =
                                     IF f.lo + 1 = f.hi THEN Idle
                                     ELSE [f EXCEPT !.lo = f.lo + 1, !.state = r.state]]
                   /\ call' = call
              ELSE /\ call' = [call EXCEPT !.ret = <<Panic>>]
                   /\ UNCHANGED <<yielded, folders>>
    /\ UNCHANGED <<grid, jobs, dither_vars, pipe_vars, caller_vars>>

\* every sub-range was processed: the parallel iterator is exhausted
ParFinish ==
    /\ call.ret = <<>>
    /\ jobs = {}
    /\ \A w \in 1..MaxWorkers : folders[w] = Idle
    /\ call' = [call EXCEPT !.ret = <<Ok(Cardinality(yielded))>>]
    /\ UNCHANGED <<grid, yielded, jobs, folders, dither_vars, pipe_vars, caller_vars>>

NextParGrid ==
    \/ \E w \in 1..MaxWorkers : \E job \in jobs :
          \E mid \in 1..(MaxParWidth * MaxParHeight) : ParTake(w, job, mid)
    \/ \E w \in 1..MaxWorkers : ParStep(w)
    \/ ParFinish

SpecParGrid == InitParGrid /\ [][NextParGrid]_vars

\* ======================= the claims =======================
\* vocabulary of the claims
Side(cfg) == Pow2(cfg.order)

\* 1 - matrix[bayer_idx(x, y)]
Complement(cfg, x, y) == Unit - cfg.matrix[bayer_idx(cfg, x, y) + 1]

\* the element of a buffer of the textures' shape at (x, y)
At(buf, x, y) == buf[y * Width + x + 1]

\* the cache is the one prepare builds for the textures' width
Prepared == tiled = cache_tiled_pattern(config, Width)

\* the palette indices (from 1) whose threshold v is below
Hits(map, v, t) ==
    {i \in 1..Len(map) : v * Unit < t * map[i].scale + map[i].offset * Unit}

\* colour of the first palette entry v is below, else of the last entry
FirstMatch(map, v, t) ==
    IF Hits(map, v, t) = {} THEN map[Len(map)].color
    ELSE map[CHOOSE i \in Hits(map, v, t) : \A j \in Hits(map, v, t) : i <= j].color

Xs == 0..(Width - 1)
Ys == 0..(Height - 1)

\* the rows written one at a time from row 0 to row y - 1, by this kernel
RECURSIVE RowsInOrder(_, _, _)
RowsInOrder(k, y, out) ==
    IF y >= Height THEN out
    ELSE RowsInOrder(k, y + 1,
             write_chunk(config, out, Width, y, row_task(config, k, in_buf, Width, tiled, y)))

\* C1: after prepare for the image's shape, apply of SimdFixed (n == L) and
\* of SimdFit (any n, any supported L) leaves in every output pixel the colour
\* apply of Scalar leaves there.
C1_StrategiesAgree ==
    (pc = "returned" /\ Prepared) =>
        \A y \in Ys : \A x \in Xs :
            At(out_buf, x, y)
              = row_task(config, Scalar_new(config), in_buf, Width, tiled, y)[x + 1]

\* a SimdFit apply over a padded last pass that wrote at least three colours
C1_Witness ==
    /\ pc = "returned" /\ Prepared
    /\ transform.kind = "Simd" /\ transform.lanes = 2 /\ Len(config.map) = 3
    /\ config.order = 1 /\ Width = 3
    /\ \A c \in 1..3 : \E i \in 1..Len(out_buf) : out_buf[i] = c

\* C2: whatever the order in which the row tasks ran and however many workers
\* ran them, the buffer apply leaves is the one obtained by running the rows
\* one at a time from row 0 to the last row.
C2_AnyScheduleIsSequential ==
    pc = "returned" => out_buf = RowsInOrder(transform, 0, Uniform(DefaultColor, Len(out_buf)))

\* an apply of three rows or more that ran on two workers and returned
C2_Witness ==
    /\ pc = "returned" /\ workers >= 2 /\ Height >= 3
    /\ \E i, j \in 1..Len(out_buf) : out_buf[i] # out_buf[j]

\* C3: after prepare for the image's shape, the Scalar apply writes to pixel
\* (x, y) the colour of the first entry with v < t*scale + offset for
\* t = 1 - matrix[bayer_idx(x, y)], or the last entry's colour when none matches.
C3_ScalarUsesThresholdOfPixel ==
    (pc = "returned" /\ transform.kind = "Scalar" /\ Prepared) =>
        \A y \in Ys : \A x \in Xs :
            At(out_buf, x, y) = FirstMatch(config.map, At(in_buf, x, y), Complement(config, x, y))

\* C4: for a uniform input the output of prepare then apply repeats with the
\* matrix side in both directions; for the 2x2 matrix [0, 0.5, 0.75, 0.25], the
\* black/white palette and a uniform 4x4 input of 0.4 a pixel is black exactly
\* when 0.4 < 1 - matrix[bayer_idx(x, y)].
C4_UniformInputGivesPeriodicOutput ==
    (pc = "returned" /\ Prepared /\ \A i \in 1..Len(in_buf) : in_buf[i] = in_buf[1]) =>
        /\ \A y \in Ys : \A x \in Xs :
              /\ x + Side(config) < Width => At(out_buf, x, y) = At(out_buf, x + Side(config), y)
              /\ y + Side(config) < Height => At(out_buf, x, y) = At(out_buf, x, y + Side(config))
        /\ ( /\ config.order = 1
             /\ config.map = <<Entry(1, Unit, 0), Entry(2, Unit, 0)>>
             /\ shape = <<4, 4>> /\ in_buf[1] = (2 * Unit) \div 5 ) =>
               \A y \in Ys : \A x \in Xs :
                  At(out_buf, x, y) = IF (2 * Unit) \div 5 < Complement(config, x, y) THEN 1 ELSE 2

\* C5: a pixel whose value is at or above t*scale_i + offset_i for every
\* entry i, t being the threshold the kernel read for that pixel, gets the
\* last entry's colour, under every strategy.
C5_NoMatchGivesLastColour ==
    pc = "returned" =>
        \A y \in Ys : \A x \in Xs :
            LET v == At(in_buf, x, y)
                t == tiled[bayer_start(config, y) + x + 1]
            IN  (\A i \in 1..Len(config.map) :
                    v * Unit >= t * config.map[i].scale + config.map[i].offset * Unit)
                => At(out_buf, x, y) = config.map[Len(config.map)].color

\* a SimdFit apply that left the last colour in a pixel no entry matched,
\* and another colour elsewhere
C5_Witness ==
    /\ pc = "returned" /\ transform.kind = "Simd" /\ Len(config.map) = 3
    /\ \E y \in Ys : \E x \in Xs :
          /\ \A i \in 1..Len(config.map) :
                At(in_buf, x, y) * Unit
                  >= tiled[bayer_start(config, y) + x + 1] * config.map[i].scale
                     + config.map[i].offset * Unit
          /\ At(out_buf, x, y) = 3
    /\ \E i \in 1..Len(out_buf) : out_buf[i] = 1

\* C6: an apply of the input the first apply since prepare had leaves the
\* output that first apply left, whatever the output buffer held meanwhile.
C6_SameInputSameOutput ==
    (pc = "returned" /\ probe # <<>> /\ probe[1] = in_buf) => out_buf = probe[2]

\* the first input was applied again after an apply of another input that
\* had left a different output
C6_Witness ==
    /\ pc = "returned" /\ probe # <<>> /\ probe[3] = 3 /\ probe[1] = in_buf
    /\ \E i, j \in 1..Len(out_buf) : out_buf[i] # out_buf[j]

\* C7: bayer_idx(x, y) is (y mod side)*side + (x mod side); it is the same at
\* (x + side, y) and at (x, y + side), and lies in [0, side*side).
C7_BayerIdxIsModuloIndex ==
    (call # <<>> /\ call.fn = "bayer_idx" /\ call.ret # <<>>) =>
        LET order == call.args[1]
            x == call.args[2]
            y == call.args[3]
            side == Pow2(order)
            cfg == BayerConfig_new(order, MatrixOf(order), <<>>)
        IN  /\ call.ret[1] = (y % side) * side + (x % side)
            /\ call.ret[1] = bayer_idx(cfg, x + side, y)
            /\ call.ret[1] = bayer_idx(cfg, x, y + side)
            /\ call.ret[1] \in 0..(side * side - 1)

\* bayer_idx returned for a coordinate outside the first tile of a 4x4 matrix
C7_Witness ==
    /\ call # <<>> /\ call.fn = "bayer_idx"
    /\ call.args = <<2, 5, 6>> /\ call.ret = <<9>>

\* C8: the cache prepare builds for width W has side*W values, the one at
\* y*W + x being 1 - matrix[bayer_idx(x, y)] for y < side and x < W.
C8_CacheIsComplementByRowPhase ==
    tiled # <<>> =>
        /\ Len(tiled) = Side(config) * Width
        /\ \A y \in 0..(Side(config) - 1) : \A x \in Xs :
              tiled[y * Width + x + 1] = Complement(config, x, y)

\* prepare built the cache of a 2x2 matrix for a width that is neither the
\* side nor a multiple of it
C8_Witness ==
    /\ pc = "idle" /\ tiled # <<>> /\ config.order = 1 /\ Width = 3
    /\ Len(tiled) = 6

\* C9: auto returns Scalar when n < 2; SimdFixed{w} when n == w; otherwise
\* Scalar when lanes_fit(n) is below 2 or above 16 and Simd{lanes_fit(n)} else.
C9_AutoDecisionTable ==
    (call # <<>> /\ call.fn = "auto" /\ call.ret # <<>>) =>
        LET n == call.args[1]
            w == call.args[2]
            r == call.ret[1]
        IN  /\ n < 2 => r = StrategyScalar
            /\ (n >= 2 /\ n = w) => r = [kind |-> "SimdFixed", lanes |-> w]
            /\ (n >= 2 /\ n # w /\ (lanes_fit(n) < 2 \/ lanes_fit(n) > 16))
                  => r = StrategyScalar
            /\ (n >= 2 /\ n # w /\ lanes_fit(n) >= 2 /\ lanes_fit(n) <= 16)
                  => r = [kind |-> "Simd", lanes |-> lanes_fit(n)]

\* auto chose SimdFit with 16 lanes for 24 colours on an 8-lane machine
C9_Witness ==
    /\ call # <<>> /\ call.fn = "auto"
    /\ call.args = <<24, 8>> /\ call.ret = <<[kind |-> "Simd", lanes |-> 16]>>

IsPow2(r) == r >= 1 /\ r = Pow2(bit_length(r) - 1)

\* C10: lanes_fit is 2 for 3, 4 for 5, 4 for 7, 8 for 12 and 16 for 24, and a
\* power of two for every n >= 1.
C10_LanesFitValues ==
    (call # <<>> /\ call.fn = "lanes_fit" /\ call.ret # <<>>) =>
        LET n == call.args[1]
            r == call.ret[1]
        IN  /\ n = 3 => r = 2
            /\ n = 5 => r = 4
            /\ n = 7 => r = 4
            /\ n = 12 => r = 8
            /\ n = 24 => r = 16
            /\ n >= 1 => IsPow2(r)

\* lanes_fit(7): the closest power of two, 8, is above 7 and was halved
C10_Witness ==
    /\ call # <<>> /\ call.fn = "lanes_fit"
    /\ call.args = <<7>> /\ call.ret = <<4>>

\* C11: the lane count auto selects for SimdFit is closest_pow2(n) halved
\* while it is above the vector width w, so it never exceeds w, for w in
\* {4, 8, 16} and every palette length n.
C11_FitLanesWithinVectorWidth ==
    (call # <<>> /\ call.fn = "auto" /\ call.ret # <<>>) =>
        LET n == call.args[1]
            w == call.args[2]
            r == call.ret[1]
        IN  (w \in {4, 8, 16} /\ r.kind = "Simd") =>
                /\ r.lanes = halve_while_above(closest_pow_2(n, UsizeBits), w)
                /\ r.lanes <= w

\* distance between two values
Dist(a, b) == IF a >= b THEN a - b ELSE b - a

\* C12: closest_pow_2(n) on a w-bit type never overflows and returns a
\* representable power of two; no representable power of two is closer to n,
\* and of two equally close ones it is the lower; it is 1 for 0 and 2^(w-1)
\* when the top bit of n is set.
C12_ClosestPow2IsNearest ==
    (call # <<>> /\ call.fn = "closest_pow_2" /\ call.ret # <<>>) =>
        LET n == call.args[1]
            bits == call.args[2]
            r == call.ret[1]
        IN  /\ r.ok
            /\ \E k \in 0..(bits - 1) : r.value = Pow2(k)
            /\ \A k \in 0..(bits - 1) :
                  /\ Dist(n, r.value) <= Dist(n, Pow2(k))
                  /\ Dist(n, r.value) = Dist(n, Pow2(k)) => r.value <= Pow2(k)
            /\ n = 0 => r.value = 1
            /\ n >= Pow2(bits - 1) => r.value = Pow2(bits - 1)

\* closest_pow_2(6u8): 4 and 8 are equally far and 4 was returned
C12_Witness ==
    /\ call # <<>> /\ call.fn = "closest_pow_2"
    /\ call.args = <<6, 8>> /\ call.ret = <<Ok(4)>>

\* C13: BayerConfig::new panics exactly when the matrix length is not
\* (2^order)*(2^order); when it returns, side_mask is 2^order - 1 and order,
\* matrix and palette are the arguments.
C13_ConfigNewChecksMatrixLength ==
    (call # <<>> /\ call.fn = "BayerConfig::new" /\ call.ret # <<>>) =>
        LET order == call.args[1]
            matrix == call.args[2]
            map == call.args[3]
            r == call.ret[1]
        IN  /\ ~r.ok <=> Len(matrix) # Pow2(order) * Pow2(order)
            /\ r.ok => /\ r.value.side_mask = Pow2(order) - 1
                       /\ r.value.order = order
                       /\ r.value.matrix = matrix
                       /\ r.value.map = map

\* BayerConfig::new returned for a 4x4 matrix of order 2
C13_Witness ==
    /\ call # <<>> /\ call.fn = "BayerConfig::new"
    /\ call.args[1] = 2 /\ Len(call.args[2]) = 16 /\ Len(call.args[3]) = 2
    /\ call.ret # <<>> /\ call.ret[1].ok /\ call.ret[1].value.side_mask = 3

\* C14: build panics for Simd or SimdFixed with a lane count outside
\* {2, 4, 8, 16} and for SimdFixed{L} with a palette whose length is not L;
\* in every other case it returns a transform of the strategy's kind.
C14_BuildRejectsUnsupported ==
    (call # <<>> /\ call.fn = "build" /\ call.ret # <<>>) =>
        LET s == call.args[1]
            map == call.args[2]
            r == call.ret[1]
            bad_lanes == s.kind \in {"Simd", "SimdFixed"} /\ s.lanes \notin {2, 4, 8, 16}
            bad_len == s.kind = "SimdFixed" /\ Len(map) # s.lanes
        IN  /\ (bad_lanes \/ bad_len) => ~r.ok
            /\ ~(bad_lanes \/ bad_len) => (r.ok /\ r.value.kind = s.kind)

\* build returned SimdFixed<8> for 8 colours, and the call before the witness
\* state was a build
C14_Witness ==
    /\ call # <<>> /\ call.fn = "build"
    /\ call.args[1] = [kind |-> "SimdFixed", lanes |-> 8] /\ Len(call.args[2]) = 8
    /\ call.ret # <<>> /\ call.ret[1].ok /\ call.ret[1].value.lanes = 8

\* C15: for a palette of 0 or 1 entries auto selects Scalar, and prepare
\* followed by apply of that transform completes normally; with one entry
\* every output pixel gets that entry's colour.
C15_ShortPaletteFallsBack ==
    Len(config.map) < 2 =>
        /\ \A w \in {0, 4, 8, 16} : auto(Len(config.map), w) = StrategyScalar
        /\ (transform.kind = "Scalar" /\ Prepared) =>
              /\ pc \notin {"unwinding", "panicked"}
              /\ (pc = "returned" /\ Len(config.map) = 1) =>
                    \A i \in 1..Len(out_buf) : out_buf[i] = config.map[1].color

\* C16: Pipeline.apply runs t1 from the input into the intermediate buffer,
\* then t2 from the intermediate buffer into the output: with two
\* increment-by-one stages the intermediate holds input + 1 and the output
\* intermediate + 1 (element by element, as far as the shorter buffer goes),
\* every 0 becomes 2, and the views returned are the caller's input and output.
C16_PipelineCascadesApply ==
    [][call'.fn = "apply" =>
          LET in == input.buffer
              b == pipeline.b.buffer
              b_after == pipeline'.b.buffer
              out == output.buffer
              out_after == output'.buffer
          IN  /\ Len(b_after) = Len(b) /\ Len(out_after) = Len(out)
              /\ \A i \in 1..Len(b) : b_after[i] = IF i <= Len(in) THEN in[i] + 1 ELSE b[i]
              /\ \A i \in 1..Len(out) :
                    out_after[i] = IF i <= Len(b) THEN b_after[i] + 1 ELSE out[i]
              /\ \A i \in 1..Len(out) :
                    (i <= Len(b) /\ i <= Len(in) /\ in[i] = 0) => out_after[i] = 2
              /\ call'.ret = <<"input", "output">>
              /\ input' = input]_vars

\* the scenario of test_pipeline_cascades_apply: 4x4x1 textures, an input of
\* zeros, and an output of twos after apply
C16_Witness ==
    /\ call # <<>> /\ call.fn = "apply"
    /\ Shape(input) = <<4, 4, 1>> /\ Shape(pipeline.b) = <<4, 4, 1>> /\ Shape(output) = <<4, 4, 1>>
    /\ input.buffer = Uniform(0, 16)
    /\ output.buffer = Uniform(2, 16)

\* C17: Pipeline.prepare(in_shape, out_shape) prepares t1 with (in_shape,
\* b_shape) and t2 with (b_shape, out_shape), b_shape being the shape of the
\* intermediate buffer; no prepare or apply changes that buffer's shape or length.
C17_PipelineCascadesPrepare ==
    [][/\ Shape(pipeline'.b) = Shape(pipeline.b)
       /\ Len(pipeline'.b.buffer) = Len(pipeline.b.buffer)
       /\ call'.fn = "prepare" =>
             /\ pipeline'.t1.in_shape = <<call'.args[1]>>
             /\ pipeline'.t1.out_shape = <<Shape(pipeline.b)>>
             /\ pipeline'.t2.in_shape = <<Shape(pipeline.b)>>
             /\ pipeline'.t2.out_shape = <<call'.args[2]>>]_vars

\* the scenario of test_pipeline_cascades_prepare, after an apply had run:
\* prepare((2,2,1), (8,8,1)) on a pipeline whose buffer is 4x4x1
C17_Witness ==
    /\ call # <<>> /\ call.fn = "prepare" /\ call.args = <<<<2, 2, 1>>, <<8, 8, 1>>>>
    /\ Shape(pipeline.b) = <<4, 4, 1>>
    /\ pipeline.t1 = [in_shape |-> <<<<2, 2, 1>>>>, out_shape |-> <<<<4, 4, 1>>>>]
    /\ pipeline.t2 = [in_shape |-> <<<<4, 4, 1>>>>, out_shape |-> <<<<8, 8, 1>>>>]
    /\ pipeline.b.buffer # Uniform(DefaultColor, 16)

\* the owned textures a constructor call returned
Constructed ==
    IF call.fn = "split_by_planes"
    THEN {call.ret[1].value[k] : k \in 1..Len(call.ret[1].value)}
    ELSE {call.ret[1].value}

\* the plane count the call constructed its textures with
ConstructedPlanes ==
    CASE call.fn = "split_by_planes" -> 1
      [] call.fn = "merge_planes" -> Len(call.args[1])
      [] OTHER -> call.args[3]

\* C18: every owned texture, whichever constructor made it, has a buffer of
\* width*height*planes elements, planes() being the plane count it was
\* constructed with.
C18_TextureBufferMatchesShape ==
    ( /\ call # <<>> /\ call.ret # <<>>
      /\ call.fn \in {"Texture::new", "Texture::from_slice", "Texture::new_uninitialized",
                       "Texture::from_image_buffer", "split_by_planes", "merge_planes"}
      /\ call.ret[1].ok ) =>
        \A t \in Constructed :
            /\ Len(t.buffer) = t.width * t.height * t.planes
            /\ t.planes = ConstructedPlanes

\* C19: GridIterator::new(width, height), for every width and height, 0
\* included, yields width*height tuples (x, y, idx) in increasing idx from 0,
\* with idx = width*y + x, x < width and y < height, then reports exhaustion;
\* len() is always the number of tuples still to be yielded.
C19_GridVisitsEveryIndexOnce ==
    /\ Len(yielded) <= grid.width * grid.height
    /\ \A i \in 1..Len(yielded) :
          LET x == yielded[i][1]
              y == yielded[i][2]
              idx == yielded[i][3]
          IN  /\ idx = i - 1
              /\ idx = grid.width * y + x
              /\ x < grid.width /\ y < grid.height
    /\ (call # <<>> /\ call.fn = "next" /\ call.ret[1] = None) =>
          Len(yielded) = grid.width * grid.height
    /\ (call # <<>> /\ call.fn = "len") =>
          /\ call.ret[1].ok
          /\ call.ret[1].value = grid.width * grid.height - Len(yielded)

\* C20: however the range [0, width*height) is split into sub-ranges and
\* whichever workers process them in whatever interleaving, par_iter does not
\* abort and yields every idx exactly once, with x = idx mod width and
\* y = idx div width.
C20_ParGridVisitsEveryIndexOnce ==
    /\ call.ret # <<>> => call.ret[1].ok
    /\ \A t \in yielded :
          /\ t.n = 1
          /\ t.idx \in 0..(grid.width * grid.height - 1)
          /\ t.x = t.idx % grid.width
          /\ t.y = t.idx \div grid.width
    /\ (call.ret # <<>> /\ call.ret[1].ok) =>
          {t.idx : t \in yielded} = 0..(grid.width * grid.height - 1)

\* a 3x2 grid split in three sub-ranges: one worker is inside a sub-range of
\* the first row, the other is past the first index of a sub-range that ends
\* in the second row, and the last index is still to be taken
C20_Witness ==
    /\ call.ret = <<>>
    /\ grid = ParGridIterator_new(3, 2)
    /\ folders[1] # Idle /\ folders[1].state # None
    /\ folders[1].lo = 4 /\ folders[1].hi = 5
    /\ folders[2] # Idle /\ folders[2].lo = 1 /\ folders[2].hi = 2
    /\ jobs = {<<5, 6>>}
    /\ yielded # {}

\* C21: in debug builds an apply whose input and output views differ in
\* shape is detected and aborts before any output pixel is written: its row
\* tasks never run and the output keeps what it held.
C21_MismatchedApplyAborts ==
    (debug_assertions /\ output_shape # shape) =>
        /\ pc \notin {"applying", "unwinding", "returned"}
        /\ out_buf = Uniform(DefaultColor, Len(out_buf))

\* the chunks of `width` elements element i (from 1) of the output lies in
ChunksOf(chunks, i) == {y \in chunks : y * Width < i /\ i <= (y + 1) * Width}

\* C22: apply splits the output in consecutive chunks of `width` elements,
\* every element in exactly one chunk; a chunk is written by the one task
\* that owns it, all of it in one go and once per apply, and no step of an
\* apply writes the input, the cache, the configuration or the transform.
C22_RowChunksAreOwned ==
    [][/\ (pc # "applying" /\ pc' = "applying") =>
             /\ running' = {}
             /\ \A i \in 1..Len(out_buf) : Cardinality(ChunksOf(pending', i)) = 1
             /\ \A y \in pending' : \E i \in 1..Len(out_buf) : y \in ChunksOf(pending', i)
             /\ out_buf' = out_buf
       /\ (pc \in {"applying", "unwinding"} \/ pc' = "applying") =>
             /\ config' = config /\ tiled' = tiled /\ transform' = transform
             /\ in_buf' = in_buf
       /\ pc \in {"applying", "unwinding"} =>
             /\ pending' \subseteq pending
             /\ \A y \in running' \ running : y \in pending \ pending'
             /\ pc' # "panicked" => \A y \in pending \ pending' : y \in running'
             /\ Cardinality(running \ running') <= 1
             /\ \A y \in running \ running' :
                   /\ \A i \in 1..Len(out_buf) :
                         y \notin ChunksOf({y}, i) => out_buf'[i] = out_buf[i]
                   /\ pc' = "applying" =>
                         \A i \in 1..Len(out_buf) :
                            y \in ChunksOf({y}, i) =>
                               out_buf'[i] = row_task(config, transform, in_buf, Width, tiled, y)[i - y * Width]
             /\ running' = running => out_buf' = out_buf
      ]_vars

\* a SimdFit apply on two workers after prepare: the task of row 1 is running
\* and has not written its chunk, the task of row 0 has written its own
C22_Witness ==
    /\ pc = "applying" /\ workers = 2 /\ transform.kind = "Simd"
    /\ shape = <<2, 2>> /\ output_shape = <<2, 2>> /\ Prepared
    /\ pending = {} /\ running = {1}
    /\ out_buf[1] # DefaultColor /\ out_buf[2] # DefaultColor
    /\ out_buf[3] = DefaultColor /\ out_buf[4] = DefaultColor

\* C23: the cache is empty before the first prepare and afterwards is
\* cache_tiled_pattern(W) for the width W of the last prepare, whatever
\* applies ran since; no step of an apply changes the cache, the
\* configuration, the precomputed scale and offset vectors or the input.
C23_CacheFollowsLastPrepare ==
    /\ [](IF call = <<>> THEN tiled = <<>>
          ELSE tiled = cache_tiled_pattern(config, call.args[1][1]))
    /\ [][(pc \in {"applying", "unwinding"} \/ pc' \in {"applying", "returned"}) =>
             /\ tiled' = tiled /\ config' = config /\ in_buf' = in_buf
             /\ transform.scale' = transform.scale /\ transform.offset' = transform.offset
             /\ transform.simd' = transform.simd]_vars

\* an apply on an image of width 1 returned with the cache of a prepare for
\* width 2, and wrote a colour
C23_Witness ==
    /\ pc = "returned" /\ Width = 1 /\ Height = 2
    /\ call # <<>> /\ call.args[1][1] = 2
    /\ Len(tiled) = 2 * Side(config)
    /\ \E i \in 1..Len(out_buf) : out_buf[i] # DefaultColor

\* sum of the sizes of the first k passes
RECURSIVE SumSizes(_, _)
SumSizes(simd, k) == IF k = 0 THEN 0 ELSE simd[k].size + SumSizes(simd, k - 1)

\* C24: SimdFit<L>::new for n entries builds ceil(n/L) passes; pass k holds
\* scale and offset of entries k*L .. k*L + size_k - 1 in its first size_k
\* lanes and zeros in the others; every pass but the last has size L, the
\* last has size n - (ceil(n/L) - 1)*L, and the sizes sum to n.
C24_FitPassesPartitionPalette ==
    (call # <<>> /\ call.fn = "SimdFit::new" /\ call.ret # <<>>) =>
        LET map == call.args[1]
            L == call.args[2]
            n == Len(map)
            r == call.ret[1]
            passes == CHOOSE k \in 0..n : k * L >= n /\ (k = 0 \/ (k - 1) * L < n)
        IN  /\ r.ok
            /\ r.value.compute_iters = passes
            /\ Len(r.value.simd) = passes
            /\ \A k \in 0..(passes - 1) :
                  LET pass == r.value.simd[k + 1]
                  IN  /\ pass.size = IF k < passes - 1 THEN L ELSE n - (passes - 1) * L
                      /\ Len(pass.scale) = L /\ Len(pass.offset) = L
                      /\ \A lane \in 0..(L - 1) :
                            IF lane < pass.size
                            THEN /\ pass.scale[lane + 1] = map[k * L + lane + 1].scale
                                 /\ pass.offset[lane + 1] = map[k * L + lane + 1].offset
                            ELSE /\ pass.scale[lane + 1] = 0
                                 /\ pass.offset[lane + 1] = 0
            /\ SumSizes(r.value.simd, passes) = n

\* SimdFit<4>::new for 9 colours: three passes, the last of one entry and
\* three zero lanes
C24_Witness ==
    /\ call # <<>> /\ call.fn = "SimdFit::new"
    /\ Len(call.args[1]) = 9 /\ call.args[2] = 4
    /\ call.ret # <<>> /\ call.ret[1].ok
    /\ Len(call.ret[1].value.simd) = 3
    /\ call.ret[1].value.simd[3] = [size |-> 1, scale |-> <<9, 0, 0, 0>>, offset |-> <<0 - 9, 0, 0, 0>>]

\* C25: the palette index fit_par selects for a pixel is chunk*L + lane for
\* a lane below the chunk's size, so it is below n; it is the smallest index
\* i with v < t*scale_i + offset_i (the first chunk with a match ends the
\* scan), and when no entry matches the pixel gets the last entry's colour,
\* whatever the zero-padded lanes compare to.
C25_FitSelectsFirstMatch ==
    (call # <<>> /\ call.fn = "fit_par" /\ call.ret # <<>>) =>
        LET map == call.args[1]
            L == call.args[2]
            v == call.args[3]
            t == call.args[4]
            n == Len(map)
            r == call.ret[1]
            tr == SimdFit_new(BayerConfig_new(0, MatrixOf(0), map), L)
        IN  /\ r.ok
            /\ \A chunk \in 0..(tr.compute_iters - 1) :
                  \A lane \in 0..(tr.simd[chunk + 1].size - 1) : chunk * L + lane < n
            /\ r.value \in 1..n
            /\ Hits(map, v, t) # {} =>
                  /\ r.value \in Hits(map, v, t)
                  /\ \A i \in Hits(map, v, t) : r.value <= i
            /\ Hits(map, v, t) = {} => r.value = n

\* SimdFit<4> on 6 colours and a negative pixel no entry matches: the two
\* padded lanes of the second chunk compare true and the pixel gets the last colour
C25_Witness ==
    /\ call # <<>> /\ call.fn = "fit_par"
    /\ Len(call.args[1]) = 6 /\ call.args[2] = 4
    /\ call.args[3] < 0 /\ Hits(call.args[1], call.args[3], call.args[4]) = {}
    /\ call.ret = <<Ok(6)>>

\* SimdFit<2>: the first match is in the third chunk or later and a later
\* entry matches too
C25_WitnessLaterChunk ==
    /\ call # <<>> /\ call.fn = "fit_par" /\ call.args[2] = 2 /\ call.ret # <<>>
    /\ call.ret[1].value >= 5
    /\ Cardinality(Hits(call.args[1], call.args[3], call.args[4])) >= 2

\* sum of the scales of the first k entries
RECURSIVE Cumulative(_, _)
Cumulative(map, k) == IF k = 0 THEN 0 ELSE map[k].scale + Cumulative(map, k - 1)

\* C26: normalize_color_map replaces every scale by the running sum of the
\* scales divided by the total of all scales, so the scales do not decrease
\* and the last is 1.0; two entries of scale 1.0 become 0.5 and 1.0.
C26_NormalizeIsCumulativeShare ==
    (call # <<>> /\ call.fn = "normalize_color_map" /\ call.ret # <<>> /\ call.ret[1].ok) =>
        LET map == call.args[1]
            n == Len(map)
            out == call.ret[1].value
        IN  /\ Len(out) = n
            /\ \A i \in 1..n : out[i].scale * Cumulative(map, n) = Cumulative(map, i) * Unit
            /\ \A i \in 1..(n - 1) : out[i].scale <= out[i + 1].scale
            /\ out[n].scale = Unit
            /\ (n = 2 /\ map[1].scale = Unit /\ map[2].scale = Unit) =>
                  (out[1].scale = Unit \div 2 /\ out[2].scale = Unit)

C28_AutoStrategyBuilds ==
    (call # <<>> /\ call.fn = "auto.build" /\ call.ret # <<>> /\ call.args[2] \in {4, 8, 16}) =>
        /\ call.ret[1].ok
        /\ LET tr == call.ret[1].value
               n == Len(call.args[1])
           IN  \/ tr.kind = "Scalar"
               \/ tr.kind = "SimdFixed" /\ tr.lanes = n /\ tr.lanes \in {4, 8, 16}
               \/ tr.kind = "Simd" /\ tr.lanes \in {2, 4, 8, 16}

\* a palette of more than 32 colours on a machine of 8 lanes: Scalar is built
C28_Witness ==
    /\ call # <<>> /\ call.fn = "auto.build" /\ call.ret # <<>>
    /\ call.args[2] = 8 /\ Len(call.args[1]) > 32
    /\ call.ret[1].ok /\ call.ret[1].value.kind = "Scalar"

\* a palette of 16 colours on a machine of 16 lanes: SimdFixed<16> is built
C28_WitnessFixed ==
    /\ call # <<>> /\ call.fn = "auto.build" /\ call.ret # <<>>
    /\ call.args[2] = 16 /\ Len(call.args[1]) = 16
    /\ call.ret[1].ok /\ call.ret[1].value.kind = "SimdFixed" /\ call.ret[1].value.lanes = 16

\* C29: for each of Bayer0 .. Bayer3, whose matrices have sides 2, 4, 8 and
\* 16, to_transform_config passes an order and a matrix of (2^order)*(2^order)
\* values, so the construction of the configuration returns.
C29_BayerVariantsConstruct ==
    (call # <<>> /\ call.fn = "to_transform_config" /\ call.ret # <<>>
        /\ call.args[1] \in BayerTypes) =>
        /\ call.ret[1].ok
        /\ Len(call.ret[1].value.matrix)
             = Pow2(call.ret[1].value.order) * Pow2(call.ret[1].value.order)

\* C30: on the paths that apply a threshold transform to an image,
\* ThresholdType::dither and TextureTransform::once, prepare is called with
\* the image's shape before apply: while apply runs the cache is the one
\* built for the image's width, never the empty one.
C30_PrepareBeforeApply ==
    (call # <<>> /\ call.fn \in {"dither", "once"} /\ pc \in {"applying", "unwinding"}) =>
        /\ tiled # <<>>
        /\ Prepared

====
